---- MODULE Spec2Model ----
(***************************************************************************)
(* Model of CourseContent/Notebooks/Numpy+Scipy/8-Numpy+ScipyMiscellany:   *)
(* the listing of the "text-based data files" section (text load, reshape, *)
(* binary load, coordinate reconstruction), the two %%timeit cells and the *)
(* netcdf inspection cell.  Labels Lnn / Cnn are the notebook lines of the *)
(* statements.                                                             *)
(***************************************************************************)
EXTENDS Integers, Sequences, FiniteSets, TLC

VARIABLES fs, pc, last, err, out, handles, ns, reads,
          age, age_data, age_img, ages, lats, lons, arrlons, arrlats,
          gadtxt, gadnpy, nf

vars == <<fs, pc, last, err, out, handles, ns, reads,
          age, age_data, age_img, ages, lats, lons, arrlons, arrlats,
          gadtxt, gadnpy, nf>>

\* datasize = (1801, 3601, 3): the grid is scaled down to Rows x Cols.
Rows == 2
Cols == 2
Width == 3
\* OrderedDict([('lat', 161), ('lon', 360)])
LatSize == 161
LonSize == 360

Range(s) == {s[k] : k \in 1..Len(s)}

(***************************************************************************)
(* Floating point values: NaN, or an exact rational n/d in lowest terms.   *)
(* d = 0 marks a cell of np.empty that was never written.                  *)
(***************************************************************************)
RECURSIVE GCD(_, _)
GCD(a, b) == IF b = 0 THEN a ELSE GCD(b, a % b)

Abs(x) == IF x < 0 THEN -x ELSE x

NaNv == [nan |-> TRUE, n |-> 0, d |-> 1]

Rat(n, d) ==
    LET g == GCD(Abs(n), d)
    IN  [nan |-> FALSE, n |-> n \div g, d |-> d \div g]

Num(k) == Rat(k, 1)

Uninit == [nan |-> FALSE, n |-> 0, d |-> 0]

\* The ages a sample may hold: NaN for no data, or an age.
AgeVals == {NaNv, Num(4)}

(***************************************************************************)
(* Results of library calls: a value, or the exception raised.            *)
(***************************************************************************)
Ok(v) == [ok |-> TRUE, err |-> "", val |-> v]
Err(e) == [ok |-> FALSE, err |-> e, val |-> <<>>]

(***************************************************************************)
(* Text encoding: one lon / lat / age tuple per line, NaN for no data.     *)
(***************************************************************************)
FormatFloat(x) ==
    IF x.nan THEN [kind |-> "nan", n |-> 0, d |-> 1]
    ELSE [kind |-> "num", n |-> x.n, d |-> x.d]

Junk == [kind |-> "junk", n |-> 0, d |-> 1]

ParseFloat(tok) ==
    IF tok.kind = "nan" THEN NaNv ELSE Rat(tok.n, tok.d)

\* Even angular sampling of the grid: column j, row i (from 0).
GridLon(j) == Rat(-180 * (Cols - 1) + 360 * j, Cols - 1)
GridLat(i) == Rat(90 * (Rows - 1) - 180 * i, Rows - 1)

WriteText(g) ==
    [exists |-> TRUE,
     lines |-> [t \in 1..(Rows * Cols) |->
                  LET i == (t - 1) \div Cols
                      j == (t - 1) % Cols
                  IN  <<FormatFloat(GridLon(j)), FormatFloat(GridLat(i)),
                        FormatFloat(g[i + 1][j + 1])>>]]

WriteBinary(g) ==
    [exists |-> TRUE, members |-> <<[name |-> "ageData", data |-> g]>>]

\* np.loadtxt(path): every line parsed into one row of floats.
Loadtxt(f) ==
    IF ~f.exists THEN Err("OSError")
    ELSE IF \E r \in 1..Len(f.lines) : \E k \in 1..Len(f.lines[r]) :
              f.lines[r][k].kind = "junk"
         THEN Err("ValueError")
    ELSE IF \E r \in 1..Len(f.lines) : Len(f.lines[r]) # Len(f.lines[1])
         THEN Err("ValueError")
    ELSE Ok([r \in 1..Len(f.lines) |->
               [k \in 1..Len(f.lines[r]) |-> ParseFloat(f.lines[r][k])]])

\* Row-major flattening of a two-dimensional array.
Flatten(a) ==
    IF Len(a) = 0 THEN <<>>
    ELSE LET w == Len(a[1])
         IN  [x \in 1..(Len(a) * w) |-> a[((x - 1) \div w) + 1][((x - 1) % w) + 1]]

\* reshape with order='F': the first index varies fastest
ReshapeFortran(a, r, c, p) ==
    LET flat == Flatten(a)
    IN  IF Len(flat) # r * c * p THEN Err("ValueError")
        ELSE Ok([i \in 1..r |-> [j \in 1..c |-> [k \in 1..p |->
                   flat[(i - 1) + r * ((j - 1) + c * (k - 1)) + 1]]]])

\* np.resize in place of reshape: never raises, repeats the data to fill
ReshapeResize(a, r, c, p) ==
    LET flat == Flatten(a)
    IN  IF Len(flat) = 0 THEN Err("ValueError")
        ELSE Ok([i \in 1..r |-> [j \in 1..c |-> [k \in 1..p |->
                   flat[((((i - 1) * c + (j - 1)) * p + (k - 1)) % Len(flat)) + 1]]]])

\* age.reshape(r, c, p): same data, row-major; the sizes must agree.
Reshape(a, r, c, p) ==
    LET flat == Flatten(a)
    IN  IF Len(flat) # r * c * p THEN Err("ValueError")
        ELSE Ok([i \in 1..r |-> [j \in 1..c |-> [k \in 1..p |->
                   flat[((i - 1) * c + (j - 1)) * p + k]]]])

\* age_data[:,:,k] with k counted from 0.
Plane(a, k) ==
    [i \in 1..Len(a) |-> [j \in 1..Len(a[i]) |-> a[i][j][k + 1]]]

\* np.empty(datasize)
Empty(r, c, p) == [i \in 1..r |-> [j \in 1..c |-> [k \in 1..p |-> Uninit]]]

(***************************************************************************)
(* Binary encoding: an .npz archive of named arrays.  np.load only opens   *)
(* the archive; a member is read when it is indexed by name.              *)
(***************************************************************************)
NpLoad(f) ==
    IF ~f.exists THEN Err("OSError")
    ELSE Ok([files |-> [k \in 1..Len(f.members) |-> f.members[k].name],
             cache |-> <<>>])

NpzGet(f, name) ==
    IF \E k \in 1..Len(f.members) : f.members[k].name = name
    THEN Ok((CHOOSE m \in Range(f.members) : m.name = name).data)
    ELSE Err("KeyError")

\* np.linspace(..., endpoint=False)
LinspaceOpen(start, stop, num) ==
    [k \in 1..num |-> Rat(start * num + (k - 1) * (stop - start), num)]

\* np.linspace(start, stop, num): num samples, both ends included.
Linspace(start, stop, num) ==
    [k \in 1..num |->
       IF num > 1 /\ k = num THEN Num(stop)
       ELSE IF num > 1
            THEN Rat(start * (num - 1) + (k - 1) * (stop - start), num - 1)
            ELSE Num(start)]

\* np.meshgrid(x, y): X[i][j] = x[j], Y[i][j] = y[i].
Meshgrid(x, y) ==
    [X |-> [i \in 1..Len(y) |-> [j \in 1..Len(x) |-> x[j]]],
     Y |-> [i \in 1..Len(y) |-> [j \in 1..Len(x) |-> y[i]]]]

Shape2(a) == IF Len(a) = 0 THEN <<0, 0>> ELSE <<Len(a), Len(a[1])>>

\* a[..., k] = plane[...] with k counted from 0.
SetPlane(a, k, plane) ==
    IF Shape2(plane) # Shape2(a) \/ Len(a) = 0 THEN Err("ValueError")
    ELSE Ok([i \in 1..Len(a) |-> [j \in 1..Len(a[i]) |->
               [a[i][j] EXCEPT ![k + 1] = plane[i][j]]]])

(***************************************************************************)
(* Self-describing file: named dimensions and named variables, each        *)
(* variable declared over a list of dimension names.                       *)
(***************************************************************************)
NcFixture ==
    [exists |-> TRUE, magic |-> TRUE,
     dims |-> <<[name |-> "lat", size |-> LatSize],
                [name |-> "lon", size |-> LonSize]>>,
     vars |-> <<[name |-> "ve", dimensions |-> <<"lon", "lat">>],
                [name |-> "vn", dimensions |-> <<"lon", "lat">>],
                [name |-> "lat", dimensions |-> <<"lat">>],
                [name |-> "lon", dimensions |-> <<"lon">>]>>]

DimSize(dims, name) == (CHOOSE d \in Range(dims) : d.name = name).size

\* shape taken from the dimensions in reverse order
VarShapeReversed(dims, dimensions) ==
    [k \in 1..Len(dimensions) |->
       DimSize(dims, dimensions[Len(dimensions) + 1 - k])]

\* The shape of a variable: the sizes of its dimensions, in declared order.
VarShape(dims, dimensions) ==
    [k \in 1..Len(dimensions) |-> DimSize(dims, dimensions[k])]

\* netcdf_file(filename, mode='w')
NcModeWrite == "w"

\* netcdf.netcdf_file(filename=...): mode defaults to 'r'.
NcMode == "r"

\* The file on disk once it has been opened with the given mode.
FileAfterOpen(f, mode) ==
    IF mode = "w"
    THEN [exists |-> TRUE, magic |-> TRUE, dims |-> <<>>, vars |-> <<>>]
    ELSE f

NetcdfFile(f, mode) ==
    IF mode = "w" THEN Ok([dimensions |-> <<>>, variables |-> <<>>])
    ELSE IF ~f.exists THEN Err("OSError")
    ELSE IF ~f.magic THEN Err("TypeError")
    ELSE Ok([dimensions |-> f.dims,
             variables |-> [v \in 1..Len(f.vars) |->
                              [name |-> f.vars[v].name,
                               shape |-> VarShape(f.dims, f.vars[v].dimensions)]]])

NoNf == [dimensions |-> <<>>, variables |-> <<>>]

\* variables.get(name, default): an unknown name yields an empty default
VarLookupDefault(variables, name) ==
    IF \E v \in Range(variables) : v.name = name
    THEN Ok((CHOOSE v \in Range(variables) : v.name = name).shape)
    ELSE Ok(<<>>)

\* nf.variables[name].data.shape
VarLookup(variables, name) ==
    IF \E v \in Range(variables) : v.name = name
    THEN Ok((CHOOSE v \in Range(variables) : v.name = name).shape)
    ELSE Err("KeyError")

(***************************************************************************)
(* Console output.                                                         *)
(***************************************************************************)
Line(kind, name, names, shape) ==
    [kind |-> kind, name |-> name, names |-> names, shape |-> shape]

TimeLine(name) == Line("time", name, <<>>, <<>>)
DimsLine(dims) ==
    Line("dims", "", [k \in 1..Len(dims) |-> dims[k].name],
         [k \in 1..Len(dims) |-> dims[k].size])
VarsLine(variables) ==
    Line("vars", "", [k \in 1..Len(variables) |-> variables[k].name], <<>>)
ShapeLine(name, shape) == Line("shape", name, <<>>, shape)

(***************************************************************************)
(* Statements, in execution order, and the step each belongs to.           *)
(***************************************************************************)
ListingLabels == <<"L53", "L54", "L55", "L59", "L62", "L64", "L67", "L69">>
CellLabels ==
    <<"C27", "C100", "C123", "C166", "C170", "C171", "C173", "C174", "C175", "C176">>

IsCell(l) == l \in Range(CellLabels)
LabelsOf(l) == IF IsCell(l) THEN CellLabels ELSE ListingLabels
Idx(l) == CHOOSE k \in 1..Len(LabelsOf(l)) : LabelsOf(l)[k] = l
DoneOf(l) == IF IsCell(l) THEN "Cdone" ELSE "Ldone"

NextLabel(l) ==
    IF Idx(l) = Len(LabelsOf(l)) THEN DoneOf(l) ELSE LabelsOf(l)[Idx(l) + 1]

StepOf(l) ==
    IF l = "C27" THEN "import"
    ELSE IF l \in {"L53", "L54", "L55", "C100"} THEN "text"
    ELSE IF l \in {"L59", "L62", "L64", "L67", "L69", "C123"} THEN "binary"
    ELSE "inspect"

\* The data names a statement reads from the namespace.
Reads(l) ==
    CASE l = "L54" -> {"age"}
      [] l = "L55" -> {"age_data"}
      [] l = "L64" -> {"datasize"}
      [] l = "L67" -> {"lons", "lats"}
      [] l = "L69" -> {"age_data", "arrlons", "arrlats", "ages"}
      [] l \in {"C170", "C171", "C173", "C174", "C175", "C176"} -> {"nf"}
      [] OTHER -> {}

\* The data names a statement binds in the namespace (the names bound
\* inside a %%timeit body are local to the timing loop).
Writes(l) ==
    CASE l = "L53" -> {"age"}
      [] l = "L54" -> {"age_data"}
      [] l = "L55" -> {"age_img"}
      [] l = "L59" -> {"datasize", "age_data"}
      [] l = "L62" -> {"ages"}
      [] l = "L64" -> {"lats", "lons"}
      [] l = "L67" -> {"arrlons", "arrlats"}
      [] l = "C166" -> {"nf"}
      [] OTHER -> {}

Bind(n, l) ==
    {p \in n : p[1] \notin Writes(l)} \cup {<<w, StepOf(l)>> : w \in Writes(l)}

\* try: ... except: pass around every statement
OnErrorContinue(l) == NextLabel(l)

\* No statement is guarded: an exception ends the run.
OnError(l) == "failed"

(***************************************************************************)
(* The input files.  The text file and the archive encode the same grid;   *)
(* either may be absent or damaged.                                        *)
(***************************************************************************)
Requested == {"lat", "lon", "ve", "vn"}

TxtVariants(g) ==
    LET w == WriteText(g)
    IN  {[exists |-> FALSE, lines |-> <<>>],
         w,
         [w EXCEPT !.lines = SubSeq(@, 1, Len(@) - 1)],
         [w EXCEPT !.lines[1] = SubSeq(@, 1, 2)],
         [w EXCEPT !.lines[1][3] = Junk]}

NpzVariants(g) ==
    {[exists |-> FALSE, members |-> <<>>],
     WriteBinary(g),
     [exists |-> TRUE, members |-> <<[name |-> "arr_0", data |-> g]>>]}

Without(vs, n) ==
    LET Keep(v) == v.name # n IN SelectSeq(vs, Keep)

NcVariants ==
    {[exists |-> FALSE, magic |-> FALSE, dims |-> <<>>, vars |-> <<>>],
     [NcFixture EXCEPT !.magic = FALSE],
     NcFixture}
    \cup {[NcFixture EXCEPT !.vars = Without(@, n)] : n \in Requested}

NoNpz == [files |-> <<>>, cache |-> <<>>]

Init ==
    /\ \E g \in [1..Rows -> [1..Cols -> AgeVals]] :
         fs \in [txt : TxtVariants(g), npz : NpzVariants(g), nc : NcVariants]
    /\ pc \in {"L53", "C27"}
    /\ last = ""
    /\ err = ""
    /\ out = <<>>
    /\ handles = {}
    /\ ns = {}
    /\ reads = {}
    /\ age = <<>>
    /\ age_data = <<>>
    /\ age_img = <<>>
    /\ ages = <<>>
    /\ lats = <<>>
    /\ lons = <<>>
    /\ arrlons = <<>>
    /\ arrlats = <<>>
    /\ gadtxt = <<>>
    /\ gadnpy = NoNpz
    /\ nf = NoNf

Step(l) == pc = l /\ last' = l /\ reads' = Reads(l)
Go(l) == pc' = NextLabel(l) /\ ns' = Bind(ns, l) /\ err' = err
Raise(l, e) == pc' = OnError(l) /\ ns' = ns /\ err' = e

listingVars == <<age, age_data, age_img, ages, lats, lons, arrlons, arrlats>>
cellVars == <<gadtxt, gadnpy, nf>>

(***************************************************************************)
(* The listing (lines 53-71).  np.loadtxt and np.load(...)[...] open and   *)
(* close their file within the call.                                       *)
(***************************************************************************)
\* age = np.loadtxt("global_age_data.3.6.xyz")
L53 ==
    /\ Step("L53")
    /\ LET r == Loadtxt(fs.txt)
       IN  IF r.ok THEN Go("L53") /\ age' = r.val
           ELSE Raise("L53", r.err) /\ age' = age
    /\ UNCHANGED <<fs, out, handles, age_data, age_img, ages, lats, lons,
                   arrlons, arrlats, cellVars>>

\* age_data = age.reshape(1801,3601,3)
L54 ==
    /\ Step("L54")
    /\ LET r == Reshape(age, Rows, Cols, Width)
       IN  IF r.ok THEN Go("L54") /\ age_data' = r.val
           ELSE Raise("L54", r.err) /\ age_data' = age_data
    /\ UNCHANGED <<fs, out, handles, age, age_img, ages, lats, lons,
                   arrlons, arrlats, cellVars>>

\* age_img = age_data[:,:,2]
L55 ==
    /\ Step("L55")
    /\ Go("L55")
    /\ age_img' = Plane(age_data, 2)
    /\ UNCHANGED <<fs, out, handles, age, age_data, ages, lats, lons,
                   arrlons, arrlats, cellVars>>

\* datasize = (1801, 3601, 3); age_data = np.empty(datasize)
L59 ==
    /\ Step("L59")
    /\ Go("L59")
    /\ age_data' = Empty(Rows, Cols, Width)
    /\ UNCHANGED <<fs, out, handles, age, age_img, ages, lats, lons,
                   arrlons, arrlats, cellVars>>

\* ages = np.load("global_age_data.3.6.z.npz")["ageData"]
L62 ==
    /\ Step("L62")
    /\ LET z == NpLoad(fs.npz)
           a == NpzGet(fs.npz, "ageData")
       IN  IF ~z.ok THEN Raise("L62", z.err) /\ ages' = ages
           ELSE IF ~a.ok THEN Raise("L62", a.err) /\ ages' = ages
           ELSE Go("L62") /\ ages' = a.val
    /\ UNCHANGED <<fs, out, handles, age, age_data, age_img, lats, lons,
                   arrlons, arrlats, cellVars>>

\* lats = np.linspace(90, -90, datasize[0])
\* lons = np.linspace(-180.0,180.0, datasize[1])
L64 ==
    /\ Step("L64")
    /\ Go("L64")
    /\ lats' = Linspace(90, -90, Rows)
    /\ lons' = Linspace(-180, 180, Cols)
    /\ UNCHANGED <<fs, out, handles, age, age_data, age_img, ages,
                   arrlons, arrlats, cellVars>>

\* arrlons,arrlats = np.meshgrid(lons, lats)
L67 ==
    /\ Step("L67")
    /\ Go("L67")
    /\ arrlons' = Meshgrid(lons, lats).X
    /\ arrlats' = Meshgrid(lons, lats).Y
    /\ UNCHANGED <<fs, out, handles, age, age_data, age_img, ages, lats, lons,
                   cellVars>>

\* age_data[...,0] = arrlons[...]; [...,1] = arrlats[...]; [...,2] = ages[...]
L69 ==
    /\ Step("L69")
    /\ LET a0 == SetPlane(age_data, 0, arrlons)
           a1 == SetPlane(a0.val, 1, arrlats)
           a2 == SetPlane(a1.val, 2, ages)
       IN  IF ~a0.ok THEN Raise("L69", a0.err) /\ age_data' = age_data
           ELSE IF ~a1.ok THEN Raise("L69", a1.err) /\ age_data' = a0.val
           ELSE IF ~a2.ok THEN Raise("L69", a2.err) /\ age_data' = a1.val
           ELSE Go("L69") /\ age_data' = a2.val
    /\ UNCHANGED <<fs, out, handles, age, age_img, ages, lats, lons,
                   arrlons, arrlats, cellVars>>

(***************************************************************************)
(* The code cells.                                                         *)
(***************************************************************************)
\* import numpy as np; from scipy.io import netcdf
C27 ==
    /\ Step("C27")
    /\ Go("C27")
    /\ UNCHANGED <<fs, out, handles, listingVars, cellVars>>

\* %%timeit  gadtxt = np.loadtxt("../../Data/Resources/global_age_data.3.6.xyz")
C100 ==
    /\ Step("C100")
    /\ LET r == Loadtxt(fs.txt)
       IN  IF r.ok
           THEN Go("C100") /\ gadtxt' = r.val /\ out' = Append(out, TimeLine("txt"))
           ELSE Raise("C100", r.err) /\ gadtxt' = gadtxt /\ out' = out
    /\ UNCHANGED <<fs, handles, listingVars, gadnpy, nf>>

\* %%timeit  gadnpy = np.load("../../Data/Resources/global_age_data.3.6.z.npz")
\* The archive object is local to the timing loop and closed when it ends.
C123 ==
    /\ Step("C123")
    /\ LET z == NpLoad(fs.npz)
       IN  IF z.ok
           THEN Go("C123") /\ gadnpy' = z.val /\ out' = Append(out, TimeLine("npz"))
           ELSE Raise("C123", z.err) /\ gadnpy' = gadnpy /\ out' = out
    /\ UNCHANGED <<fs, handles, listingVars, gadtxt, nf>>

\* nf = netcdf.netcdf_file(filename="../../Data/Resources/velocity_AU.nc")
\* The file stays open (and mapped) for as long as nf is not closed.
C166 ==
    /\ Step("C166")
    /\ fs' = [fs EXCEPT !.nc = FileAfterOpen(@, NcMode)]
    /\ LET r == NetcdfFile(fs.nc, NcMode)
       IN  IF r.ok
           THEN Go("C166") /\ nf' = r.val /\ handles' = handles \cup {"nc"}
           ELSE Raise("C166", r.err) /\ nf' = nf /\ handles' = handles
    /\ UNCHANGED <<out, listingVars, gadtxt, gadnpy>>

\* pprint( nf.dimensions )
C170 ==
    /\ Step("C170")
    /\ Go("C170")
    /\ out' = Append(out, DimsLine(nf.dimensions))
    /\ UNCHANGED <<fs, handles, listingVars, cellVars>>

\* pprint( nf.variables )
C171 ==
    /\ Step("C171")
    /\ Go("C171")
    /\ out' = Append(out, VarsLine(nf.variables))
    /\ UNCHANGED <<fs, handles, listingVars, cellVars>>

\* print (nf.variables[name].data.shape)
PrintShape(l, name) ==
    /\ Step(l)
    /\ LET r == VarLookup(nf.variables, name)
       IN  IF r.ok THEN Go(l) /\ out' = Append(out, ShapeLine(name, r.val))
           ELSE Raise(l, r.err) /\ out' = out
    /\ UNCHANGED <<fs, handles, listingVars, cellVars>>

C173 == PrintShape("C173", "lat")
C174 == PrintShape("C174", "lon")
C175 == PrintShape("C175", "ve")
C176 == PrintShape("C176", "vn")

Next ==
    \/ L53 \/ L54 \/ L55 \/ L59 \/ L62 \/ L64 \/ L67 \/ L69
    \/ C27 \/ C100 \/ C123 \/ C166 \/ C170 \/ C171
    \/ C173 \/ C174 \/ C175 \/ C176

Spec == Init /\ [][Next]_vars

(***************************************************************************)
(* Properties.                                                             *)
(***************************************************************************)
\* Statement l has been executed (successfully or not).
Executed(l) ==
    /\ last # ""
    /\ LabelsOf(last) = LabelsOf(l)
    /\ Idx(last) >= Idx(l)

Declared(f) == {f.vars[k].name : k \in 1..Len(f.vars)}

\* Every line of the text file is a well-formed tuple, but the number of
\* lines is not rows x cols.
WrongRowCount ==
    /\ fs.txt.exists
    /\ \A r \in 1..Len(fs.txt.lines) :
         /\ Len(fs.txt.lines[r]) = Width
         /\ \A k \in 1..Width : fs.txt.lines[r][k].kind # "junk"
    /\ Len(fs.txt.lines) # Rows * Cols

Printing == {"C100", "C123", "C170", "C171", "C173", "C174", "C175", "C176"}

PrintsBefore(l) ==
    Cardinality({k \in 1..(Idx(l) - 1) : LabelsOf(l)[k] \in Printing})

\* The step that prints a line.
LineStep(ln) ==
    IF ln.kind = "time" THEN (IF ln.name = "txt" THEN "text" ELSE "binary")
    ELSE "inspect"

\* C1: once the listing has loaded both encodings, the value plane taken
\* from the text encoding (parse, reshape to (rows, cols, 3), plane 2) equals,
\* cell by cell and NaN marks included, the array stored as "ageData".
ValuePlanesIdentical ==
    (Executed("L62") /\ err = "") =>
        /\ Shape2(age_img) = <<Rows, Cols>>
        /\ Shape2(ages) = <<Rows, Cols>>
        /\ \A i \in 1..Rows : \A j \in 1..Cols : age_img[i][j] = ages[i][j]

ValuePlanesLoaded ==
    /\ Executed("L62") /\ err = ""
    /\ \E i \in 1..Rows : \E j \in 1..Cols : age_img[i][j].nan
    /\ \E i \in 1..Rows : \E j \in 1..Cols : ~ages[i][j].nan

\* C2: opening the well-formed file yields dimensions lat: 161, lon: 360,
\* and the cell ends by printing, after the dimension and variable
\* listings, the shapes (161,), (360,), (360, 161), (360, 161) of lat, lon,
\* ve, vn in that order.
FixtureShapes ==
    (fs.nc = NcFixture) =>
        /\ (Executed("C166") /\ IsCell(last)) =>
              nf.dimensions = <<[name |-> "lat", size |-> LatSize],
                                [name |-> "lon", size |-> LonSize]>>
        /\ (pc = "Cdone") =>
              SubSeq(out, Len(out) - 5, Len(out)) =
                 <<Line("dims", "", <<"lat", "lon">>, <<LatSize, LonSize>>),
                   Line("vars", "", <<"ve", "vn", "lat", "lon">>, <<>>),
                   ShapeLine("lat", <<LatSize>>),
                   ShapeLine("lon", <<LonSize>>),
                   ShapeLine("ve", <<LonSize, LatSize>>),
                   ShapeLine("vn", <<LonSize, LatSize>>)>>

FixtureInspected ==
    /\ fs.nc = NcFixture
    /\ pc = "Cdone"
    /\ Len(out) = 8

ShapeStatements ==
    {<<"C173", "lat">>, <<"C174", "lon">>, <<"C175", "ve">>, <<"C176", "vn">>}

\* C3: a requested name the opened file does not declare makes its print
\* statement fail with KeyError; the run ends there and no shape line is
\* ever printed for an undeclared name.
UndeclaredVariableFails ==
    /\ \A s \in ShapeStatements :
         (Executed(s[1]) /\ s[2] \notin Declared(fs.nc)) =>
            (pc = "failed" /\ last = s[1] /\ err = "KeyError")
    /\ \A k \in 1..Len(out) :
         out[k].kind = "shape" => out[k].name \in Declared(fs.nc)

UndeclaredRequested ==
    /\ "lat" \notin Declared(fs.nc)
    /\ last = "C173"
    /\ pc = "failed"
    /\ Len(out) = 4

\* C4: when a duration has been reported, the timed statement has read the
\* data: every line of the text file for the text duration, the stored
\* "ageData" array for the binary duration.
TimedLoadReadsData ==
    /\ (TimeLine("txt") \in Range(out)) => Len(gadtxt) = Len(fs.txt.lines)
    /\ (TimeLine("npz") \in Range(out)) =>
          \E k \in 1..Len(gadnpy.cache) : gadnpy.cache[k].name = "ageData"

\* C6 as claimed: after a failure the run has stopped and the console holds
\* no line printed by the step that failed.
FailureLeavesNoPartialOutput ==
    (err # "") =>
        /\ pc = "failed"
        /\ \A k \in 1..Len(out) : LineStep(out[k]) # StepOf(last)

FailureInv ==
    (err # "") =>
        /\ pc = "failed"
        /\ err \in {"OSError", "ValueError", "TypeError", "KeyError"}
        /\ Len(out) = IF IsCell(last) THEN PrintsBefore(last) ELSE 0

\* C6: a failure is fatal.  The run stops at the failing statement with the
\* error reported, nothing runs afterwards (no retry, no later statement),
\* and the console holds exactly the lines printed before that statement,
\* those of the failing step included.
FailureIsFatal ==
    /\ []FailureInv
    /\ [][(err # "") => UNCHANGED vars]_vars

FailedAfterPartialOutput ==
    /\ pc = "failed"
    /\ last = "C176"
    /\ err = "KeyError"
    /\ Len(out) = 7

\* C7 as claimed: a text file with the wrong number of rows ends every load
\* of it in a fatal error, with no logical array and no elapsed time.
WrongRowCountIsFatal ==
    (WrongRowCount /\ (Executed("L54") \/ Executed("C100"))) =>
        /\ pc = "failed"
        /\ age_data = <<>>
        /\ TimeLine("txt") \notin Range(out)

\* C7: with the wrong number of rows the reshape of the listing raises
\* ValueError and no logical array or value plane is produced; the timed
\* cell, which only calls np.loadtxt, parses the file and reports a time.
WrongRowCountFailsAtReshape ==
    WrongRowCount =>
        /\ Executed("L54") =>
              /\ pc = "failed" /\ last = "L54" /\ err = "ValueError"
              /\ age_data = <<>> /\ age_img = <<>>
        /\ Executed("C100") =>
              /\ TimeLine("txt") \in Range(out)
              /\ Len(gadtxt) = Len(fs.txt.lines)
              /\ last = "C100" => err = ""

ReshapeRejected ==
    /\ WrongRowCount
    /\ pc = "failed"
    /\ last = "L54"
    /\ Len(age) = Rows * Cols - 1

\* C8: no handle on an input file is open once the operation using it has
\* finished, and none is open when the cells have all run.
NoHandleOutlivesOperation ==
    /\ Executed("C100") => "txt" \notin handles
    /\ Executed("C123") => "npz" \notin handles
    /\ (pc = "Cdone") => handles = {}

ReadsOwnStep ==
    (last # "") => \A n \in reads : <<n, StepOf(last)>> \in ns

\* C9: no statement changes an input file, and every data name a statement
\* reads was bound by its own step.
InputsReadOnly ==
    /\ []ReadsOwnStep
    /\ [][fs' = fs]_vars

InspectionFinished ==
    /\ pc = "Cdone"
    /\ handles = {"nc"}
    /\ reads = {"nf"}
    /\ <<"nf", "inspect">> \in ns

====
